---- MODULE Spec2Model ----
(***************************************************************************)
(* Node inventory of pkg/clusterd/inventory/node.go: the bulk loader       *)
(* loadNodeConfig, the IP accessors GetIpAddress / SetIpAddress and the    *)
(* tree decoder loadHardwareConfig with its category parsers, over an      *)
(* etcd-like hierarchical store.                                           *)
(*                                                                         *)
(* Strings that the code parses are model strings whose characters are     *)
(* given by Chars; unsigned integers are kept as canonical decimal digit   *)
(* sequences (no leading zeros), so 32- and 64-bit ranges are compared     *)
(* digit by digit.                                                         *)
(***************************************************************************)
EXTENDS Integers, Sequences, FiniteSets, TLC

VARIABLES
    store,        \* loader: node id -> subtree under the discovered-nodes root, or NoTree
    pc,           \* loader: position of loadNodeConfig
    nodes,        \* loader: listed node ids not yet iterated
    node,         \* loader: node id of the current iteration
    nodeConfig,   \* loader: NodeConfig being built for the current node
    nodesConfig,  \* loader: node id -> NodeConfig built so far
    ret,          \* loader: what loadNodeConfig returned
    fetched,      \* loader: node id -> outcome of its recursive fetch and decode
    listed,       \* loader: the node ids the directory listing returned
    ipRead,       \* loader: node id -> what GetIpAddress returned for it
    storeOps,     \* loader: number of concurrent store writes so far
    tree,         \* decoder: the subtree of one node in the store
    decoded,      \* decoder: result of loadHardwareConfig on tree, or NotDecoded
    writes        \* decoder: number of store writes so far

vars == <<store, pc, nodes, node, nodeConfig, nodesConfig, ret, fetched,
          listed, ipRead, storeOps, tree, decoded, writes>>

loaderVars == <<store, pc, nodes, node, nodeConfig, nodesConfig, ret, fetched,
                listed, ipRead, storeOps>>

decoderVars == <<tree, decoded, writes>>

(***************************************************************************)
(* Bounds                                                                  *)
(***************************************************************************)
MaxWrites == 2
MaxStoreOps == 2

(***************************************************************************)
(* Key names                                                               *)
(***************************************************************************)
IpAddressKey == "ipaddress"
DisksKey == "disks"
ProcessorsKey == "cpu"
NetworkKey == "net"
MemoryKey == "mem"

ProcPhysicalIDKey == "physicalid"
ProcSiblingsKey == "siblings"
ProcCoreIDKey == "coreid"
ProcNumCoresKey == "numcores"
ProcSpeedKey == "speed"
ProcBitsKey == "bits"
MemoryTotalSizeKey == "totalsize"
NetworkIPv4AddressKey == "ipv4address"
NetworkIPv6AddressKey == "ipv6address"
NetworkSpeedKey == "speed"

(***************************************************************************)
(* Errors                                                                  *)
(***************************************************************************)
NoErr == "nil"
ErrSyntax == "strconv: invalid syntax"
ErrRange == "strconv: value out of range"
ErrIsDir == "IP address node is a directory"
ErrMissing == "hardware info missing"
ErrKeyNotFound == "etcd: key not found"
ErrStore == "etcd: cluster unavailable"

IsEtcdKeyNotFound(err) == err = ErrKeyNotFound

(***************************************************************************)
(* Strings and numeric parsing                                             *)
(***************************************************************************)
Digit == {"0", "1", "2", "3", "4", "5", "6", "7", "8", "9"}

\* the characters of the strings the decoder may be asked to parse
Chars(s) ==
    CASE s = "" -> <<>>
      [] s = "0" -> <<"0">>
      [] s = "1" -> <<"1">>
      [] s = "7" -> <<"7">>
      [] s = "07" -> <<"0", "7">>
      [] s = "1.5" -> <<"1", ".", "5">>
      [] s = "x" -> <<"x">>
      [] s = "z" -> <<"z">>
      [] s = "4294967296" -> <<"4", "2", "9", "4", "9", "6", "7", "2", "9", "6">>
      [] s = "10.0.0.1" -> <<"1", "0", ".", "0", ".", "0", ".", "1">>
      [] s = "10.0.0.2" -> <<"1", "0", ".", "0", ".", "0", ".", "2">>
      [] s = "10.0.0.9" -> <<"1", "0", ".", "0", ".", "0", ".", "9">>
      [] s = "fe80::1" -> <<"f", "e", "8", "0", ":", ":", "1">>

DigitVal(c) ==
    CASE c = "0" -> 0 [] c = "1" -> 1 [] c = "2" -> 2 [] c = "3" -> 3
      [] c = "4" -> 4 [] c = "5" -> 5 [] c = "6" -> 6 [] c = "7" -> 7
      [] c = "8" -> 8 [] c = "9" -> 9

ZeroUint == <<"0">>
MaxUint32 == <<"4", "2", "9", "4", "9", "6", "7", "2", "9", "5">>
MaxUint64 == <<"1", "8", "4", "4", "6", "7", "4", "4", "0", "7",
               "3", "7", "0", "9", "5", "5", "1", "6", "1", "5">>

\* a < b for canonical digit sequences
LessDigits(a, b) ==
    \/ Len(a) < Len(b)
    \/ /\ Len(a) = Len(b)
       /\ \E i \in 1..Len(a) :
            /\ DigitVal(a[i]) < DigitVal(b[i])
            /\ \A j \in 1..(i - 1) : a[j] = b[j]

\* n*10 + d on canonical digit sequences
PushDigit(n, d) == IF n = ZeroUint THEN <<d>> ELSE Append(n, d)

RECURSIVE UintLoop(_, _, _, _)
RECURSIVE UintNext(_, _, _, _)
\* n1 is the value with the digit at i added: out of range, or on to i + 1
UintNext(cs, i, n1, maxVal) ==
    IF LessDigits(maxVal, n1) THEN [err |-> ErrRange, val |-> maxVal]
    ELSE UintLoop(cs, i + 1, n1, maxVal)

UintLoop(cs, i, n, maxVal) ==
    IF i > Len(cs) THEN [err |-> NoErr, val |-> n]
    ELSE IF cs[i] \notin Digit THEN [err |-> ErrSyntax, val |-> ZeroUint]
    ELSE UintNext(cs, i, PushDigit(n, cs[i]), maxVal)

UintOf(cs, maxVal) ==
    IF cs = <<>> THEN [err |-> ErrSyntax, val |-> ZeroUint]
    ELSE UintLoop(cs, 1, ZeroUint, maxVal)

\* strconv.ParseUint(s, 10, bitSize)
ParseUint(s, bitSize) == UintOf(Chars(s), IF bitSize = 32 THEN MaxUint32 ELSE MaxUint64)

RECURSIVE StripLeadingZeros(_)
StripLeadingZeros(ds) ==
    IF Len(ds) > 1 /\ Head(ds) = "0" THEN StripLeadingZeros(Tail(ds))
    ELSE IF ds = <<>> THEN ZeroUint ELSE ds

RECURSIVE StripTrailingZeros(_)
StripTrailingZeros(ds) ==
    IF ds /= <<>> /\ ds[Len(ds)] = "0"
    THEN StripTrailingZeros(SubSeq(ds, 1, Len(ds) - 1))
    ELSE ds

ZeroFloat == [neg |-> FALSE, int |-> ZeroUint, frac |-> <<>>]

\* the digits before and after the '.' of body, which sits at index dot
FloatOf(neg, body, dot) ==
    [err |-> NoErr,
     val |-> [neg |-> neg,
              int |-> StripLeadingZeros(SubSeq(body, 1, dot - 1)),
              frac |-> StripTrailingZeros(SubSeq(body, dot + 1, Len(body)))]]

\* body is the string after its sign: digits with at most one '.', at least
\* one digit
FloatBody(neg, body) ==
    IF /\ \A i \in 1..Len(body) : body[i] \in Digit \cup {"."}
       /\ Cardinality({i \in 1..Len(body) : body[i] = "."}) <= 1
       /\ \E i \in 1..Len(body) : body[i] \in Digit
    THEN IF \E i \in 1..Len(body) : body[i] = "."
         THEN FloatOf(neg, body, CHOOSE i \in 1..Len(body) : body[i] = ".")
         ELSE FloatOf(neg, body, Len(body) + 1)
    ELSE [err |-> ErrSyntax, val |-> ZeroFloat]

FloatChars(cs) ==
    IF cs /= <<>> /\ Head(cs) \in {"-", "+"} THEN FloatBody(Head(cs) = "-", Tail(cs))
    ELSE FloatBody(FALSE, cs)

\* strconv.ParseFloat(s, 64) on strings of digits, '.', a leading sign and
\* letters that start no special form
ParseFloat(s) == FloatChars(Chars(s))

(***************************************************************************)
(* Store trees (etcd.Node): Key is the path below the discovered-nodes     *)
(* root, Nodes the children in the order the store returns them            *)
(***************************************************************************)
NoTree == [Missing |-> TRUE]

Leaf(key, v) == [Key |-> key, Dir |-> FALSE, Value |-> v, Nodes |-> <<>>]
DirNode(key, children) == [Key |-> key, Dir |-> TRUE, Value |-> "", Nodes |-> children]

\* util.GetLeafKeyPath: the final segment of a key
GetLeafKeyPath(key) == key[Len(key)]

\* index of the child of n named seg, 0 when there is none
ChildIndex(n, seg) ==
    LET hits == {i \in 1..Len(n.Nodes) : GetLeafKeyPath(n.Nodes[i].Key) = seg}
    IN  IF hits = {} THEN 0 ELSE CHOOSE i \in hits : TRUE

RECURSIVE HasPath(_, _)
HasPath(n, path) ==
    IF path = <<>> THEN TRUE
    ELSE LET i == ChildIndex(n, Head(path))
         IN  i /= 0 /\ HasPath(n.Nodes[i], Tail(path))

\* whether the store accepts Set(path, value) below directory n: no file on
\* the way, and the target is not a directory
RECURSIVE CanSet(_, _)
CanSet(n, path) ==
    LET i == ChildIndex(n, Head(path))
    IN  IF ~n.Dir THEN FALSE
        ELSE IF i = 0 THEN TRUE
        ELSE IF Len(path) = 1 THEN ~n.Nodes[i].Dir
        ELSE CanSet(n.Nodes[i], Tail(path))

\* the store's Set(path, value) below directory n: overwrites the value of an
\* existing key, creates missing directories and the key otherwise
RECURSIVE StoreSet(_, _, _)
StoreSet(n, path, v) ==
    LET seg == Head(path)
        i == ChildIndex(n, seg)
        key == Append(n.Key, seg)
    IN  IF Len(path) = 1
        THEN IF i = 0 THEN [n EXCEPT !.Nodes = Append(@, Leaf(key, v))]
             ELSE [n EXCEPT !.Nodes[i].Value = v]
        ELSE IF i = 0
             THEN [n EXCEPT !.Nodes = Append(@, StoreSet(DirNode(key, <<>>), Tail(path), v))]
             ELSE [n EXCEPT !.Nodes[i] = StoreSet(@, Tail(path), v)]

RemoveAt(s, i) == SubSeq(s, 1, i - 1) \o SubSeq(s, i + 1, Len(s))

\* the store's recursive Delete(path) below directory n
RECURSIVE StoreDelete(_, _)
StoreDelete(n, path) ==
    LET i == ChildIndex(n, Head(path))
    IN  IF Len(path) = 1 THEN [n EXCEPT !.Nodes = RemoveAt(@, i)]
        ELSE [n EXCEPT !.Nodes[i] = StoreDelete(@, Tail(path))]

\* the store's Set(path, dir=true) of a new, empty directory directly below n
StoreMkdir(n, seg) == [n EXCEPT !.Nodes = Append(@, DirNode(Append(n.Key, seg), <<>>))]

(***************************************************************************)
(* Inventory model: zero values of the typed records                       *)
(***************************************************************************)
ZeroProc ==
    [ID |-> ZeroUint, PhysicalID |-> ZeroUint, Siblings |-> ZeroUint,
     CoreID |-> ZeroUint, NumCores |-> ZeroUint, Speed |-> ZeroFloat,
     Bits |-> ZeroUint]

ZeroNet == [Name |-> "", IPv4Address |-> "", IPv6Address |-> "", Speed |-> ZeroUint]

ZeroMem == [TotalSize |-> ZeroUint]

ZeroDisk == [Serial |-> "", Properties |-> <<>>]

\* &NodeConfig{}
ZeroNodeConfig ==
    [IPAddress |-> "", Disks |-> <<>>, Processors |-> <<>>, Memory |-> ZeroMem,
     NetworkAdapters |-> <<>>]

(***************************************************************************)
(* Category parsers.  Each returns [err, cfg]: cfg is the NodeConfig as    *)
(* the parser left it, which on an error is the partly filled one.         *)
(***************************************************************************)

\* the disk record decoder: the disk is kept as the opaque property set of
\* its subtree
GetDiskInfo(diskInfo) ==
    [err |-> NoErr,
     disk |-> [Serial |-> GetLeafKeyPath(diskInfo.Key), Properties |-> diskInfo.Nodes]]

RECURSIVE DisksLoop(_, _, _)
RECURSIVE DisksNext(_, _, _, _)
\* d is what GetDiskInfo returned for disk i
DisksNext(cfg, disks, i, d) ==
    IF d.err /= NoErr THEN [err |-> d.err, cfg |-> cfg]
    ELSE DisksLoop([cfg EXCEPT !.Disks[i] = d.disk], disks, i + 1)

DisksLoop(cfg, disks, i) ==
    IF i > Len(disks) THEN [err |-> NoErr, cfg |-> cfg]
    ELSE DisksNext(cfg, disks, i, GetDiskInfo(disks[i]))

loadDisksConfig(cfg, disksRootNode) ==
    DisksLoop([cfg EXCEPT !.Disks = [i \in 1..Len(disksRootNode.Nodes) |-> ZeroDisk]],
              disksRootNode.Nodes, 1)

ProcUintKeys ==
    {ProcPhysicalIDKey, ProcSiblingsKey, ProcCoreIDKey, ProcNumCoresKey, ProcBitsKey}

\* proc with the field called name set to val
ProcWithField(proc, name, val) ==
    CASE name = ProcPhysicalIDKey -> [proc EXCEPT !.PhysicalID = val]
      [] name = ProcSiblingsKey -> [proc EXCEPT !.Siblings = val]
      [] name = ProcCoreIDKey -> [proc EXCEPT !.CoreID = val]
      [] name = ProcNumCoresKey -> [proc EXCEPT !.NumCores = val]
      [] name = ProcSpeedKey -> [proc EXCEPT !.Speed = val]
      [] name = ProcBitsKey -> [proc EXCEPT !.Bits = val]

\* the conversion of a processor property: r is what ParseUint or ParseFloat
\* returned for the value of the property called name
ProcField(proc, name, r) ==
    IF r.err /= NoErr THEN [err |-> r.err, proc |-> proc]
    ELSE [err |-> NoErr, proc |-> ProcWithField(proc, name, r.val)]

\* ProcProperty with a conversion error logged and skipped instead of returned
ProcPropertyLenient(proc, procProperty) ==
    LET name == GetLeafKeyPath(procProperty.Key)
        r == IF name = ProcSpeedKey THEN ParseFloat(procProperty.Value)
             ELSE ParseUint(procProperty.Value, 32)
    IN  IF name \in ProcUintKeys \cup {ProcSpeedKey} /\ r.err = NoErr
        THEN ProcField(proc, name, r)
        ELSE [err |-> NoErr, proc |-> proc]

\* ProcProperty with an unknown property name returned as an error
ProcPropertyStrict(proc, procProperty) ==
    LET name == GetLeafKeyPath(procProperty.Key)
    IN  IF name = ProcSpeedKey THEN ProcField(proc, name, ParseFloat(procProperty.Value))
        ELSE IF name \in ProcUintKeys
        THEN ProcField(proc, name, ParseUint(procProperty.Value, 32))
        ELSE [err |-> ErrSyntax, proc |-> proc]

\* one property of a processor: the switch on its name
ProcProperty(proc, procProperty) ==
    LET procPropertyName == GetLeafKeyPath(procProperty.Key)
    IN  CASE procPropertyName = ProcPhysicalIDKey ->
               ProcField(proc, ProcPhysicalIDKey, ParseUint(procProperty.Value, 32))
          [] procPropertyName = ProcSiblingsKey ->
               ProcField(proc, ProcSiblingsKey, ParseUint(procProperty.Value, 32))
          [] procPropertyName = ProcCoreIDKey ->
               ProcField(proc, ProcCoreIDKey, ParseUint(procProperty.Value, 32))
          [] procPropertyName = ProcNumCoresKey ->
               ProcField(proc, ProcNumCoresKey, ParseUint(procProperty.Value, 32))
          [] procPropertyName = ProcSpeedKey ->
               ProcField(proc, ProcSpeedKey, ParseFloat(procProperty.Value))
          [] procPropertyName = ProcBitsKey ->
               ProcField(proc, ProcBitsKey, ParseUint(procProperty.Value, 32))
          [] OTHER -> [err |-> NoErr, proc |-> proc]

RECURSIVE ProcPropertiesLoop(_, _, _)
RECURSIVE ProcPropertiesNext(_, _, _)
\* r is what property j made of the processor
ProcPropertiesNext(r, props, j) ==
    IF r.err /= NoErr THEN r ELSE ProcPropertiesLoop(r.proc, props, j + 1)

ProcPropertiesLoop(proc, props, j) ==
    IF j > Len(props) THEN [err |-> NoErr, proc |-> proc]
    ELSE ProcPropertiesNext(ProcProperty(proc, props[j]), props, j)

RECURSIVE ProcessorsLoop(_, _, _)
RECURSIVE ProcessorsNext(_, _, _, _)
RECURSIVE ProcessorsID(_, _, _, _)
\* r is processor i with its properties decoded
ProcessorsNext(cfg, procs, i, r) ==
    IF r.err /= NoErr THEN [err |-> r.err, cfg |-> cfg]
    ELSE ProcessorsLoop([cfg EXCEPT !.Processors[i] = r.proc], procs, i + 1)

\* procID is what ParseUint returned for the key segment of processor i
ProcessorsID(cfg, procs, i, procID) ==
    IF procID.err /= NoErr THEN [err |-> procID.err, cfg |-> cfg]
    ELSE ProcessorsNext(cfg, procs, i,
             ProcPropertiesLoop([ZeroProc EXCEPT !.ID = procID.val], procs[i].Nodes, 1))

ProcessorsLoop(cfg, procs, i) ==
    IF i > Len(procs) THEN [err |-> NoErr, cfg |-> cfg]
    ELSE ProcessorsID(cfg, procs, i, ParseUint(GetLeafKeyPath(procs[i].Key), 32))

loadProcessorsConfig(cfg, procsRootNode) ==
    ProcessorsLoop([cfg EXCEPT !.Processors = [i \in 1..Len(procsRootNode.Nodes) |-> ZeroProc]],
                   procsRootNode.Nodes, 1)

\* size is what ParseUint returned for the total size
MemTotalSize(mem, size) ==
    IF size.err /= NoErr THEN [err |-> size.err, mem |-> mem]
    ELSE [err |-> NoErr, mem |-> [mem EXCEPT !.TotalSize = size.val]]

\* one property of the memory category
MemProperty(mem, memProperty) ==
    IF GetLeafKeyPath(memProperty.Key) = MemoryTotalSizeKey
    THEN MemTotalSize(mem, ParseUint(memProperty.Value, 64))
    ELSE [err |-> NoErr, mem |-> mem]

RECURSIVE MemPropertiesLoop(_, _, _)
RECURSIVE MemPropertiesNext(_, _, _)
MemPropertiesNext(r, props, j) ==
    IF r.err /= NoErr THEN r ELSE MemPropertiesLoop(r.mem, props, j + 1)

MemPropertiesLoop(mem, props, j) ==
    IF j > Len(props) THEN [err |-> NoErr, mem |-> mem]
    ELSE MemPropertiesNext(MemProperty(mem, props[j]), props, j)

\* r is the MemoryConfig the loop over the properties left
MemoryDone(cfg, r) ==
    IF r.err /= NoErr THEN [err |-> r.err, cfg |-> cfg]
    ELSE [err |-> NoErr, cfg |-> [cfg EXCEPT !.Memory = r.mem]]

loadMemoryConfig(cfg, memoryRootNode) ==
    MemoryDone(cfg, MemPropertiesLoop(ZeroMem, memoryRootNode.Nodes, 1))

\* speed is what ParseUint returned for a non-empty adapter speed
NetSpeed(net, speed) ==
    IF speed.err /= NoErr THEN [err |-> speed.err, net |-> net]
    ELSE [err |-> NoErr, net |-> [net EXCEPT !.Speed = speed.val]]

\* NetProperty without the empty-string case of the speed
NetPropertyNoEmptyCase(net, netProperty) ==
    LET name == GetLeafKeyPath(netProperty.Key)
    IN  CASE name = NetworkIPv4AddressKey ->
               [err |-> NoErr, net |-> [net EXCEPT !.IPv4Address = netProperty.Value]]
          [] name = NetworkIPv6AddressKey ->
               [err |-> NoErr, net |-> [net EXCEPT !.IPv6Address = netProperty.Value]]
          [] name = NetworkSpeedKey -> NetSpeed(net, ParseUint(netProperty.Value, 64))
          [] OTHER -> [err |-> NoErr, net |-> net]

\* one property of a network adapter: the switch on its name
NetProperty(net, netProperty) ==
    LET netPropertyName == GetLeafKeyPath(netProperty.Key)
    IN  CASE netPropertyName = NetworkIPv4AddressKey ->
               [err |-> NoErr, net |-> [net EXCEPT !.IPv4Address = netProperty.Value]]
          [] netPropertyName = NetworkIPv6AddressKey ->
               [err |-> NoErr, net |-> [net EXCEPT !.IPv6Address = netProperty.Value]]
          [] netPropertyName = NetworkSpeedKey ->
               IF netProperty.Value = ""
               THEN [err |-> NoErr, net |-> [net EXCEPT !.Speed = ZeroUint]]
               ELSE NetSpeed(net, ParseUint(netProperty.Value, 64))
          [] OTHER -> [err |-> NoErr, net |-> net]

RECURSIVE NetPropertiesLoop(_, _, _)
RECURSIVE NetPropertiesNext(_, _, _)
NetPropertiesNext(r, props, j) ==
    IF r.err /= NoErr THEN r ELSE NetPropertiesLoop(r.net, props, j + 1)

NetPropertiesLoop(net, props, j) ==
    IF j > Len(props) THEN [err |-> NoErr, net |-> net]
    ELSE NetPropertiesNext(NetProperty(net, props[j]), props, j)

RECURSIVE NetworkLoop(_, _, _)
RECURSIVE NetworkNext(_, _, _, _)
\* r is adapter i with its properties decoded
NetworkNext(cfg, nics, i, r) ==
    IF r.err /= NoErr THEN [err |-> r.err, cfg |-> cfg]
    ELSE NetworkLoop([cfg EXCEPT !.NetworkAdapters[i] = r.net], nics, i + 1)

NetworkLoop(cfg, nics, i) ==
    IF i > Len(nics) THEN [err |-> NoErr, cfg |-> cfg]
    ELSE NetworkNext(cfg, nics, i,
             NetPropertiesLoop([ZeroNet EXCEPT !.Name = GetLeafKeyPath(nics[i].Key)],
                               nics[i].Nodes, 1))

loadNetworkConfig(cfg, networkRootNode) ==
    NetworkLoop([cfg EXCEPT !.NetworkAdapters = [i \in 1..Len(networkRootNode.Nodes) |-> ZeroNet]],
                networkRootNode.Nodes, 1)

\* loadIPAddressConfig copying the value without looking at the shape
loadIPAddressConfigNoShape(cfg, ipAddressNode) ==
    [err |-> NoErr, cfg |-> [cfg EXCEPT !.IPAddress = ipAddressNode.Value]]

loadIPAddressConfig(cfg, ipAddressNode) ==
    IF ipAddressNode.Dir THEN [err |-> ErrIsDir, cfg |-> cfg]
    ELSE [err |-> NoErr, cfg |-> [cfg EXCEPT !.IPAddress = ipAddressNode.Value]]

(***************************************************************************)
(* Tree decoder                                                            *)
(***************************************************************************)

\* one child of the node's root: the switch on its leaf segment
HardwareComponent(cfg, nodeConfigRoot) ==
    LET name == GetLeafKeyPath(nodeConfigRoot.Key)
    IN  CASE name = DisksKey -> loadDisksConfig(cfg, nodeConfigRoot)
          [] name = ProcessorsKey -> loadProcessorsConfig(cfg, nodeConfigRoot)
          [] name = MemoryKey -> loadMemoryConfig(cfg, nodeConfigRoot)
          [] name = NetworkKey -> loadNetworkConfig(cfg, nodeConfigRoot)
          [] name = IpAddressKey -> loadIPAddressConfig(cfg, nodeConfigRoot)
          [] OTHER -> [err |-> NoErr, cfg |-> cfg]

RECURSIVE HardwareLoop(_, _, _)
RECURSIVE HardwareNext(_, _, _)
\* r is what child i made of the NodeConfig
HardwareNext(r, roots, i) ==
    IF r.err /= NoErr THEN r ELSE HardwareLoop(r.cfg, roots, i + 1)

HardwareLoop(cfg, roots, i) ==
    IF i > Len(roots) THEN [err |-> NoErr, cfg |-> cfg]
    ELSE HardwareNext(HardwareComponent(cfg, roots[i]), roots, i)

\* nodeInfo is the node of the response of the recursive fetch, NoTree for a
\* response without one
loadHardwareConfig(nodeId, cfg, nodeInfo) ==
    IF nodeInfo = NoTree THEN [err |-> ErrMissing, cfg |-> cfg]
    ELSE HardwareLoop(cfg, nodeInfo.Nodes, 1)

(***************************************************************************)
(* What discovery leaves in the store                                      *)
(***************************************************************************)
RECURSIVE ApplyWrites(_, _)
ApplyWrites(n, ws) ==
    IF ws = <<>> THEN n
    ELSE ApplyWrites(StoreSet(n, ws[1][1], ws[1][2]), Tail(ws))

\* what discovery of a one-processor, one-adapter machine leaves in the store
HardwareWrites ==
    << <<<<DisksKey, "sda", "size">>, "7">>,
       <<<<NetworkKey, "eth0", NetworkIPv4AddressKey>>, "10.0.0.1">>,
       <<<<NetworkKey, "eth0", NetworkIPv6AddressKey>>, "">>,
       <<<<NetworkKey, "eth0", NetworkSpeedKey>>, "7">>,
       <<<<MemoryKey, MemoryTotalSizeKey>>, "4294967296">>,
       <<<<ProcessorsKey, "0", ProcPhysicalIDKey>>, "7">>,
       <<<<ProcessorsKey, "0", ProcSiblingsKey>>, "7">>,
       <<<<ProcessorsKey, "0", ProcCoreIDKey>>, "07">>,
       <<<<ProcessorsKey, "0", ProcNumCoresKey>>, "7">>,
       <<<<ProcessorsKey, "0", ProcSpeedKey>>, "1.5">>,
       <<<<ProcessorsKey, "0", ProcBitsKey>>, "7">> >>

DiscoveredTree(nodeId) == ApplyWrites(DirNode(<<nodeId>>, <<>>), HardwareWrites)

DiscoveredTreeWithIp(nodeId, ip) == StoreSet(DiscoveredTree(nodeId), <<IpAddressKey>>, ip)

(***************************************************************************)
(* Bulk loader: loadNodeConfig over the store, one action per blocking     *)
(* store call, with the store's other clients writing in between           *)
(***************************************************************************)
NodeIds == {"A", "B", "C"}

NotDecoded == [err |-> "not decoded"]
DecNode == "A"

IpValues == {"10.0.0.2", "10.0.0.9"}

NoEntry == [Absent |-> TRUE]
NotRead == [err |-> "not read"]
NotFetched == [fetchErr |-> "not fetched"]
EmptyMap == [n \in NodeIds |-> NoEntry]
Running == [done |-> FALSE]

\* return nil, err
ReturnNil(err) == [done |-> TRUE, isNil |-> TRUE, nodesConfig |-> EmptyMap, err |-> err]

\* return nodesConfig, nil
ReturnMap(m) == [done |-> TRUE, isNil |-> FALSE, nodesConfig |-> m, err |-> NoErr]

\* a discovered node one of whose processor fields is malformed
MalformedTree(nodeId) ==
    StoreSet(DiscoveredTreeWithIp(nodeId, "10.0.0.1"),
             <<ProcessorsKey, "0", ProcNumCoresKey>>, "x")

\* util.GetDirChildKeys: the node ids listed under the discovered-nodes root
GetDirChildKeys(st) == {n \in NodeIds : st[n] /= NoTree}

\* the answers the store can give to a Get below node n: the key is there
\* or not, and any call may fail for another reason
GetOutcomes(st, n, path) ==
    IF st[n] = NoTree THEN {ErrKeyNotFound, ErrStore}
    ELSE IF ~HasPath(st[n], path) THEN {ErrKeyNotFound, ErrStore}
    ELSE {NoErr, ErrStore}

RECURSIVE NodeAt(_, _)
NodeAt(n, path) ==
    IF path = <<>> THEN n ELSE NodeAt(n.Nodes[ChildIndex(n, Head(path))], Tail(path))

\* GetIpAddress, given the store's answer err to its Get
GetIpAddress(st, nodeId, err) ==
    IF err /= NoErr THEN [err |-> err, val |-> ""]
    ELSE [err |-> NoErr, val |-> NodeAt(st[nodeId], <<IpAddressKey>>).Value]

\* SetIpAddress: the store's Set of the ipaddress key of the node
SetIpAddress(nodeId, ipaddress) ==
    /\ storeOps < MaxStoreOps
    /\ IF store[nodeId] = NoTree
       THEN store' = [store EXCEPT ![nodeId] =
                        StoreSet(DirNode(<<nodeId>>, <<>>), <<IpAddressKey>>, ipaddress)]
       ELSE /\ CanSet(store[nodeId], <<IpAddressKey>>)
            /\ store' = [store EXCEPT ![nodeId] = StoreSet(@, <<IpAddressKey>>, ipaddress)]
    /\ storeOps' = storeOps + 1
    /\ UNCHANGED <<pc, nodes, node, nodeConfig, nodesConfig, ret, fetched, listed, ipRead>>

\* another client of the store deletes the node's directory
RemoveNode(nodeId) ==
    /\ storeOps < MaxStoreOps
    /\ store[nodeId] /= NoTree
    /\ store' = [store EXCEPT ![nodeId] = NoTree]
    /\ storeOps' = storeOps + 1
    /\ UNCHANGED <<pc, nodes, node, nodeConfig, nodesConfig, ret, fetched, listed, ipRead>>

\* lines 47-54: the directory listing
ListNodes ==
    /\ pc = "start"
    /\ \E err \in {NoErr, ErrStore} :
         IF err /= NoErr
         THEN /\ ret' = ReturnNil(err)
              /\ pc' = "done"
              /\ UNCHANGED <<nodes, listed, nodesConfig>>
         ELSE /\ nodes' = GetDirChildKeys(store)
              /\ listed' = GetDirChildKeys(store)
              /\ nodesConfig' = EmptyMap
              /\ pc' = "loop"
              /\ ret' = ret
    /\ UNCHANGED <<store, node, nodeConfig, fetched, ipRead, storeOps>>

\* FetchFailed with every fetch error aborting the load
FetchFailedAborts(n, err) ==
    /\ fetched' = [fetched EXCEPT ![n] = [fetchErr |-> err]]
    /\ ret' = ReturnNil(err)
    /\ pc' = "done"
    /\ UNCHANGED <<nodes, node, nodeConfig>>

\* lines 61-66: the recursive fetch of node n failed with err
FetchFailed(n, err) ==
    /\ fetched' = [fetched EXCEPT ![n] = [fetchErr |-> err]]
    /\ IF IsEtcdKeyNotFound(err)
       THEN /\ nodes' = nodes \ {n}
            /\ pc' = "loop"
            /\ UNCHANGED <<node, nodeConfig, ret>>
       ELSE /\ node' = n
            /\ nodeConfig' = ZeroNodeConfig
            /\ pc' = "ip"
            /\ UNCHANGED <<nodes, ret>>

\* Decoded with a decode error skipping the node
DecodedSkips(n, r) ==
    /\ fetched' = [fetched EXCEPT ![n] =
                     [fetchErr |-> NoErr, decodeErr |-> r.err, IPAddress |-> r.cfg.IPAddress]]
    /\ IF r.err /= NoErr
       THEN /\ nodes' = nodes \ {n}
            /\ pc' = "loop"
            /\ UNCHANGED <<node, nodeConfig, ret>>
       ELSE /\ node' = n
            /\ nodeConfig' = r.cfg
            /\ pc' = "ip"
            /\ UNCHANGED <<nodes, ret>>

\* lines 69-73: loadHardwareConfig returned r for node n
Decoded(n, r) ==
    /\ fetched' = [fetched EXCEPT ![n] =
                     [fetchErr |-> NoErr, decodeErr |-> r.err, IPAddress |-> r.cfg.IPAddress]]
    /\ IF r.err /= NoErr
       THEN /\ ret' = ReturnNil(r.err)
            /\ pc' = "done"
            /\ UNCHANGED <<nodes, node, nodeConfig>>
       ELSE /\ node' = n
            /\ nodeConfig' = r.cfg
            /\ pc' = "ip"
            /\ UNCHANGED <<nodes, ret>>

\* lines 56, 67-68: the recursive fetch of node n returned nodeInfo
DecodeFetched(n, nodeInfo) == Decoded(n, loadHardwareConfig(n, ZeroNodeConfig, nodeInfo))

\* lines 55-73: one iteration up to its IP fetch, for any listed node not
\* yet iterated
FetchNode(n) ==
    /\ pc = "loop"
    /\ n \in nodes
    /\ \E err \in GetOutcomes(store, n, <<>>) :
         IF err /= NoErr THEN FetchFailed(n, err) ELSE DecodeFetched(n, store[n])
    /\ UNCHANGED <<store, nodesConfig, listed, ipRead, storeOps>>

\* StoreIp with a failed GetIpAddress skipping the node
StoreIpSkips(ip) ==
    /\ ipRead' = [ipRead EXCEPT ![node] = ip]
    /\ nodes' = nodes \ {node}
    /\ pc' = "loop"
    /\ IF ip.err /= NoErr
       THEN UNCHANGED <<nodeConfig, nodesConfig, ret>>
       ELSE /\ nodeConfig' = [nodeConfig EXCEPT !.IPAddress = ip.val]
            /\ nodesConfig' = [nodesConfig EXCEPT ![node] = nodeConfig']
            /\ ret' = ret

\* StoreIp keeping the IP address the subtree decode found
StoreIpKeepsDecoded(ip) ==
    /\ ipRead' = [ipRead EXCEPT ![node] = ip]
    /\ IF ip.err /= NoErr
       THEN /\ ret' = ReturnNil(ip.err)
            /\ pc' = "done"
            /\ UNCHANGED <<nodes, nodeConfig, nodesConfig>>
       ELSE /\ nodeConfig' = IF nodeConfig.IPAddress = ""
                             THEN [nodeConfig EXCEPT !.IPAddress = ip.val]
                             ELSE nodeConfig
            /\ nodesConfig' = [nodesConfig EXCEPT ![node] = nodeConfig']
            /\ nodes' = nodes \ {node}
            /\ pc' = "loop"
            /\ ret' = ret

\* StoreIp with no entry for a node whose hardware was not loaded
StoreIpNeedsHardware(ip) ==
    /\ ipRead' = [ipRead EXCEPT ![node] = ip]
    /\ IF ip.err /= NoErr
       THEN /\ ret' = ReturnNil(ip.err)
            /\ pc' = "done"
            /\ UNCHANGED <<nodes, nodeConfig, nodesConfig>>
       ELSE /\ nodeConfig' = [nodeConfig EXCEPT !.IPAddress = ip.val]
            /\ nodesConfig' = IF fetched[node].fetchErr /= NoErr THEN nodesConfig
                              ELSE [nodesConfig EXCEPT ![node] = nodeConfig']
            /\ nodes' = nodes \ {node}
            /\ pc' = "loop"
            /\ ret' = ret

\* lines 76-82: GetIpAddress returned ip for the current node
StoreIp(ip) ==
    /\ ipRead' = [ipRead EXCEPT ![node] = ip]
    /\ IF ip.err /= NoErr
       THEN /\ ret' = ReturnNil(ip.err)
            /\ pc' = "done"
            /\ UNCHANGED <<nodes, nodeConfig, nodesConfig>>
       ELSE /\ nodeConfig' = [nodeConfig EXCEPT !.IPAddress = ip.val]
            /\ nodesConfig' = [nodesConfig EXCEPT ![node] = nodeConfig']
            /\ nodes' = nodes \ {node}
            /\ pc' = "loop"
            /\ ret' = ret

\* lines 75-83: the rest of the iteration
FetchIp ==
    /\ pc = "ip"
    /\ \E err \in GetOutcomes(store, node, <<IpAddressKey>>) :
         StoreIp(GetIpAddress(store, node, err))
    /\ UNCHANGED <<store, node, fetched, listed, storeOps>>

\* line 85: every listed node was iterated
Return ==
    /\ pc = "loop"
    /\ nodes = {}
    /\ ret' = ReturnMap(nodesConfig)
    /\ pc' = "done"
    /\ UNCHANGED <<store, nodes, node, nodeConfig, nodesConfig, fetched, listed, ipRead,
                   storeOps>>

\* the subtrees the store holds for a node when the load starts
InitialTrees(n) ==
    {DiscoveredTreeWithIp(n, "10.0.0.1"), DiscoveredTree(n), MalformedTree(n)}

DecoderIdle ==
    /\ tree = DirNode(<<DecNode>>, <<>>)
    /\ decoded = NotDecoded
    /\ writes = 0

Init ==
    /\ store \in {st \in [NodeIds -> UNION {InitialTrees(n) : n \in NodeIds}] :
                    \A n \in NodeIds : st[n] \in InitialTrees(n)}
    /\ pc = "start"
    /\ nodes = {}
    /\ listed = {}
    /\ node = ""
    /\ nodeConfig = ZeroNodeConfig
    /\ nodesConfig = EmptyMap
    /\ ret = Running
    /\ fetched = [n \in NodeIds |-> NotFetched]
    /\ ipRead = [n \in NodeIds |-> NotRead]
    /\ storeOps = 0
    /\ DecoderIdle

Next ==
    \/ ListNodes /\ UNCHANGED decoderVars
    \/ \E n \in NodeIds : FetchNode(n) /\ UNCHANGED decoderVars
    \/ FetchIp /\ UNCHANGED decoderVars
    \/ Return /\ UNCHANGED decoderVars
    \/ \E n \in NodeIds, ip \in IpValues : SetIpAddress(n, ip) /\ UNCHANGED decoderVars
    \/ \E n \in NodeIds : RemoveNode(n) /\ UNCHANGED decoderVars

Spec == Init /\ [][Next]_vars

(***************************************************************************)
(* Decoder specification: the subtree of one node is written by the        *)
(* store's clients and decoded by loadHardwareConfig                       *)
(***************************************************************************)

\* values the store's clients write
Values == {"", "7", "1.5", "x", "4294967296"}

\* keys the store's clients set
SetPaths ==
    { <<IpAddressKey>>, <<IpAddressKey, "v4">>,
      <<ProcessorsKey, "0", ProcPhysicalIDKey>>, <<ProcessorsKey, "0", ProcSpeedKey>>,
      <<ProcessorsKey, "0", ProcBitsKey>>, <<ProcessorsKey, "0", "model">>,
      <<ProcessorsKey, "1", ProcCoreIDKey>>, <<ProcessorsKey, "z", ProcSiblingsKey>>,
      <<MemoryKey, MemoryTotalSizeKey>>, <<MemoryKey, "free">>,
      <<NetworkKey, "eth0", NetworkSpeedKey>>, <<NetworkKey, "eth0", NetworkIPv4AddressKey>>,
      <<NetworkKey, "eth0", "mtu">>, <<NetworkKey, "eth1", NetworkSpeedKey>>,
      <<"rack">> }

\* keys and directories the store's clients delete
DeletePaths ==
    { <<IpAddressKey>>, <<ProcessorsKey>>, <<MemoryKey, MemoryTotalSizeKey>>,
      <<NetworkKey, "eth0">>, <<ProcessorsKey, "0", ProcNumCoresKey>> }

\* directories the store's clients create empty
MkdirKeys == {IpAddressKey, "rack"}

DecInit ==
    /\ tree = DiscoveredTree(DecNode)
    /\ decoded = NotDecoded
    /\ writes = 0

DecSet(path, v) ==
    /\ writes < MaxWrites
    /\ CanSet(tree, path)
    /\ tree' = StoreSet(tree, path, v)
    /\ decoded' = NotDecoded
    /\ writes' = writes + 1

DecDelete(path) ==
    /\ writes < MaxWrites
    /\ HasPath(tree, path)
    /\ tree' = StoreDelete(tree, path)
    /\ decoded' = NotDecoded
    /\ writes' = writes + 1

DecMkdir(seg) ==
    /\ writes < MaxWrites
    /\ ChildIndex(tree, seg) = 0
    /\ tree' = StoreMkdir(tree, seg)
    /\ decoded' = NotDecoded
    /\ writes' = writes + 1

\* a recursive fetch of the node's subtree, decoded into a fresh NodeConfig
DecDecode ==
    /\ decoded = NotDecoded
    /\ decoded' = loadHardwareConfig(DecNode, ZeroNodeConfig, tree)
    /\ UNCHANGED <<tree, writes>>

LoaderIdle ==
    /\ store = [n \in NodeIds |-> NoTree]
    /\ pc = "idle"
    /\ nodes = {}
    /\ listed = {}
    /\ node = ""
    /\ nodeConfig = ZeroNodeConfig
    /\ nodesConfig = EmptyMap
    /\ ret = Running
    /\ fetched = [n \in NodeIds |-> NotFetched]
    /\ ipRead = [n \in NodeIds |-> NotRead]
    /\ storeOps = 0

InitDecode == DecInit /\ LoaderIdle

NextDecode ==
    \/ \E path \in SetPaths, v \in Values : DecSet(path, v) /\ UNCHANGED loaderVars
    \/ \E path \in DeletePaths : DecDelete(path) /\ UNCHANGED loaderVars
    \/ \E seg \in MkdirKeys : DecMkdir(seg) /\ UNCHANGED loaderVars
    \/ DecDecode /\ UNCHANGED loaderVars

SpecDecode == InitDecode /\ [][NextDecode]_vars

(***************************************************************************)
(* Properties of the decoder (SpecDecode)                                  *)
(***************************************************************************)
IsDecoded == decoded /= NotDecoded

Decode(t) == loadHardwareConfig(DecNode, ZeroNodeConfig, t)

TopIndex(seg) == ChildIndex(tree, seg)

\* the children of the top-level directory called seg, none when it is absent
Under(t, seg) ==
    LET i == ChildIndex(t, seg) IN IF i = 0 THEN <<>> ELSE t.Nodes[i].Nodes

Range(sq) == {sq[i] : i \in 1..Len(sq)}

\* a processor property whose value fails the conversion of its field
MalformedProcProperty(p) ==
    LET name == GetLeafKeyPath(p.Key)
    IN  \/ name \in ProcUintKeys /\ ParseUint(p.Value, 32).err /= NoErr
        \/ name = ProcSpeedKey /\ ParseFloat(p.Value).err /= NoErr

MalformedProcessor(proc) ==
    \/ ParseUint(GetLeafKeyPath(proc.Key), 32).err /= NoErr
    \/ \E p \in Range(proc.Nodes) : MalformedProcProperty(p)

MalformedMemProperty(p) ==
    /\ GetLeafKeyPath(p.Key) = MemoryTotalSizeKey
    /\ ParseUint(p.Value, 64).err /= NoErr

\* the empty string is the adapter speed's own spelling of zero
MalformedNetProperty(p) ==
    /\ GetLeafKeyPath(p.Key) = NetworkSpeedKey
    /\ p.Value /= ""
    /\ ParseUint(p.Value, 64).err /= NoErr

HasMalformedLeaf(t) ==
    \/ \E proc \in Range(Under(t, ProcessorsKey)) : MalformedProcessor(proc)
    \/ \E p \in Range(Under(t, MemoryKey)) : MalformedMemProperty(p)
    \/ \E nic \in Range(Under(t, NetworkKey)) :
         \E p \in Range(nic.Nodes) : MalformedNetProperty(p)

\* C7: whenever a node's subtree holds a malformed value for a recognized
\* numeric leaf under cpu, mem or net, or a processor key segment that is
\* no unsigned integer, loadHardwareConfig returns an error
C7_MalformedLeafFailsDecode ==
    (IsDecoded /\ HasMalformedLeaf(tree)) => decoded.err /= NoErr

\* a malformed processor field met after the network category was decoded:
\* the NodeConfig is partly filled and the decode returns the parse error
C7_Witness ==
    /\ IsDecoded
    /\ HasMalformedLeaf(tree)
    /\ decoded.err = ErrSyntax
    /\ decoded.cfg.NetworkAdapters /= <<>>
    /\ decoded.cfg.Memory = ZeroMem

KnownProcProperty(p) == GetLeafKeyPath(p.Key) \in ProcUintKeys \cup {ProcSpeedKey}
KnownMemProperty(p) == GetLeafKeyPath(p.Key) = MemoryTotalSizeKey
KnownNetProperty(p) ==
    GetLeafKeyPath(p.Key) \in {NetworkIPv4AddressKey, NetworkIPv6AddressKey, NetworkSpeedKey}
KnownCategory(c) ==
    GetLeafKeyPath(c.Key) \in {DisksKey, ProcessorsKey, MemoryKey, NetworkKey, IpAddressKey}

StripProps(item, Known(_)) == [item EXCEPT !.Nodes = SelectSeq(@, Known)]

StripCategory(c) ==
    LET name == GetLeafKeyPath(c.Key)
    IN  CASE name = ProcessorsKey ->
               [c EXCEPT !.Nodes = [i \in 1..Len(@) |-> StripProps(@[i], KnownProcProperty)]]
          [] name = MemoryKey -> StripProps(c, KnownMemProperty)
          [] name = NetworkKey ->
               [c EXCEPT !.Nodes = [i \in 1..Len(@) |-> StripProps(@[i], KnownNetProperty)]]
          [] OTHER -> c

\* t without its unrecognized categories and unrecognized properties
StripUnknown(t) ==
    LET kept == SelectSeq(t.Nodes, KnownCategory)
    IN  [t EXCEPT !.Nodes = [i \in 1..Len(kept) |-> StripCategory(kept[i])]]

\* C8: when the subtree without its unrecognized categories and properties
\* decodes without error, the subtree with them decodes without error too
\* and to the same NodeConfig
C8_UnknownNamesIgnored ==
    (IsDecoded /\ Decode(StripUnknown(tree)).err = NoErr)
        => decoded = Decode(StripUnknown(tree))

\* a valid subtree with an unrecognized, non-numeric processor property
C8_Witness ==
    /\ IsDecoded
    /\ decoded.err = NoErr
    /\ \E proc \in Range(Under(tree, ProcessorsKey)) :
         \E p \in Range(proc.Nodes) : ~KnownProcProperty(p) /\ p.Value = "x"
    /\ Len(decoded.cfg.Processors) = 1

EmptySpeedAdapters(t) ==
    {GetLeafKeyPath(nic.Key) : nic \in
        {n \in Range(Under(t, NetworkKey)) :
            \E p \in Range(n.Nodes) :
                GetLeafKeyPath(p.Key) = NetworkSpeedKey /\ p.Value = ""}}

HasEmptyProcSpeed(t) ==
    \E proc \in Range(Under(t, ProcessorsKey)) :
        \E p \in Range(proc.Nodes) : GetLeafKeyPath(p.Key) = ProcSpeedKey /\ p.Value = ""

HasEmptyTotalSize(t) ==
    \E p \in Range(Under(t, MemoryKey)) :
        GetLeafKeyPath(p.Key) = MemoryTotalSizeKey /\ p.Value = ""

\* a malformed leaf other than an empty string, or a malformed processor key
NonEmptyMalformed(t) ==
    \/ \E proc \in Range(Under(t, ProcessorsKey)) :
         \/ ParseUint(GetLeafKeyPath(proc.Key), 32).err /= NoErr
         \/ \E p \in Range(proc.Nodes) : p.Value /= "" /\ MalformedProcProperty(p)
    \/ \E p \in Range(Under(t, MemoryKey)) : p.Value /= "" /\ MalformedMemProperty(p)
    \/ \E nic \in Range(Under(t, NetworkKey)) :
         \E p \in Range(nic.Nodes) : MalformedNetProperty(p)

IpIsDir(t) ==
    LET i == ChildIndex(t, IpAddressKey) IN IF i = 0 THEN FALSE ELSE t.Nodes[i].Dir

\* C9: an adapter speed of "" decodes exactly as the speed "0" does (no
\* error, Speed = 0), while a processor speed or a memory total size of ""
\* makes the decode fail, with the parse error when nothing else in the
\* subtree fails
C9_EmptySpeed ==
    IsDecoded =>
        /\ \A nic \in EmptySpeedAdapters(tree) :
             decoded = Decode(StoreSet(tree, <<NetworkKey, nic, NetworkSpeedKey>>, "0"))
        /\ (HasEmptyProcSpeed(tree) \/ HasEmptyTotalSize(tree)) =>
             /\ decoded.err /= NoErr
             /\ (~NonEmptyMalformed(tree) /\ ~IpIsDir(tree)) => decoded.err = ErrSyntax

\* both halves in one decode: the adapter's empty speed became 0 in the
\* NodeConfig, then the processor's empty speed stopped the decode
C9_Witness ==
    /\ IsDecoded
    /\ EmptySpeedAdapters(tree) = {"eth0"}
    /\ HasEmptyProcSpeed(tree)
    /\ decoded.err = ErrSyntax
    /\ Len(decoded.cfg.NetworkAdapters) = 1
    /\ decoded.cfg.NetworkAdapters[1].Speed = ZeroUint

IpNode(t) == t.Nodes[ChildIndex(t, IpAddressKey)]

\* the decode of the children that precede the ipaddress child
BeforeIp(t) ==
    HardwareLoop(ZeroNodeConfig, SubSeq(t.Nodes, 1, ChildIndex(t, IpAddressKey) - 1), 1)

ReturnedMap == ret.done /\ ~ret.isNil
ReturnedNil == ret.done /\ ret.isNil

FetchedOk(n) == fetched[n].fetchErr = NoErr
DecodeFailed(n) == FetchedOk(n) /\ fetched[n].decodeErr /= NoErr
DecodedOk(n) == FetchedOk(n) /\ fetched[n].decodeErr = NoErr
FetchNotFound(n) == fetched[n].fetchErr = ErrKeyNotFound
FetchOtherError(n) == fetched[n].fetchErr = ErrStore
IpRead(n) == ipRead[n] /= NotRead
IpReadOk(n) == ipRead[n].err = NoErr
IpReadFailed(n) == IpRead(n) /\ ~IpReadOk(n)

\* the loop is through with node n: it went on to the next node
Iterated(n) == fetched[n] /= NotFetched /\ n \notin nodes

\* C1: once the subtree of a node was fetched and loadHardwareConfig
\* returned an error for it, loadNodeConfig has returned nil and that error
C1_DecodeErrorAborts ==
    \A n \in NodeIds :
        DecodeFailed(n) =>
            /\ pc = "done"
            /\ ReturnedNil
            /\ ret.err = fetched[n].decodeErr
            /\ ret.nodesConfig = EmptyMap

\* A not found, B valid and already in the map being built, C malformed:
\* nil and the parse error are returned
C1_Witness ==
    /\ FetchNotFound("A")
    /\ DecodedOk("B")
    /\ nodesConfig["B"] /= NoEntry
    /\ DecodeFailed("C")
    /\ ReturnedNil
    /\ ret.err = ErrSyntax

\* C2: a node whose recursive fetch failed with an error other than
\* not-found is skipped: it has no entry in the map being built nor in the
\* mapping a successful load returns
C2_FetchErrorSkipsNode ==
    \A n \in NodeIds :
        FetchOtherError(n) =>
            /\ nodesConfig[n] = NoEntry
            /\ ReturnedMap => ret.nodesConfig[n] = NoEntry

\* the step in which the recursive fetch of n comes back not found
NotFoundStep(n) == fetched[n] = NotFetched /\ FetchNotFound(n)'

\* C3: a not-found fetch of a node leaves the load running, drops only that
\* node from the nodes still to iterate, and adds no entry; the node never
\* gets an entry nor an IP fetch, and a load that returns a mapping has
\* iterated every listed node
C3_NotFoundSkipsNode ==
    /\ [](\A n \in NodeIds :
            FetchNotFound(n) =>
                /\ nodesConfig[n] = NoEntry
                /\ ~IpRead(n)
                /\ ret.done => ret.nodesConfig[n] = NoEntry)
    /\ [](ReturnedMap => \A n \in listed : Iterated(n))
    /\ [][\A n \in NodeIds :
            NotFoundStep(n) =>
                /\ pc' = "loop"
                /\ ret' = ret
                /\ nodes' = nodes \ {n}
                /\ nodesConfig' = nodesConfig]_vars

\* A was listed and then not found; the load still returned a mapping, with
\* B in it and A not
C3_Witness ==
    /\ "A" \in listed
    /\ FetchNotFound("A")
    /\ ReturnedMap
    /\ ret.nodesConfig["A"] = NoEntry
    /\ ret.nodesConfig["B"] /= NoEntry

\* C4 as claimed: every node the loop is through with had its IP address
\* fetched and stored in its entry, whatever its recursive fetch returned
C4_IpFetchedForEveryNode ==
    \A n \in NodeIds :
        Iterated(n) =>
            /\ IpRead(n)
            /\ nodesConfig[n] /= NoEntry
            /\ nodesConfig[n].IPAddress = ipRead[n].val

\* C4 amended: that holds of the nodes whose recursive fetch succeeded and
\* decoded, or failed with another error than not-found: the IP fetch is the
\* next step of the load, and its value is stored in the node's entry; a
\* node not found is skipped with no IP fetch and no entry, and a decode
\* error ends the load before the IP fetch
C4_IpFetchedUnlessNotFound ==
    \A n \in NodeIds :
        /\ fetched[n] /= NotFetched =>
              IF FetchNotFound(n) \/ DecodeFailed(n)
              THEN ~IpRead(n) /\ nodesConfig[n] = NoEntry
              ELSE IF ~IpRead(n)
              THEN pc = "ip" /\ node = n
              ELSE IpReadOk(n) =>
                     /\ nodesConfig[n] /= NoEntry
                     /\ nodesConfig[n].IPAddress = ipRead[n].val
        /\ (Iterated(n) /\ ~FetchNotFound(n)) => IpReadOk(n)

\* the three fetch outcomes in one load
C4_Witness ==
    /\ ReturnedMap
    /\ \E a, b, c \in NodeIds :
         /\ FetchNotFound(a) /\ ~IpRead(a)
         /\ FetchOtherError(b) /\ ret.nodesConfig[b].IPAddress = ipRead[b].val
         /\ DecodedOk(c) /\ ret.nodesConfig[c].IPAddress = ipRead[c].val

\* C5: once GetIpAddress failed for a node, loadNodeConfig has returned nil
\* and that error, and the node has no entry
C5_IpFailureAborts ==
    \A n \in NodeIds :
        IpReadFailed(n) =>
            /\ pc = "done"
            /\ ReturnedNil
            /\ ret.err = ipRead[n].err
            /\ ret.nodesConfig = EmptyMap
            /\ nodesConfig[n] = NoEntry

\* the ipaddress key of a node is not found after its hardware decoded and
\* another node's entry was built
C5_Witness ==
    /\ ReturnedNil
    /\ \E n, m \in NodeIds :
         /\ DecodedOk(n)
         /\ IpRead(n) /\ ipRead[n].err = ErrKeyNotFound
         /\ DecodedOk(m)
         /\ nodesConfig[m] /= NoEntry

\* C6: the IPAddress of every entry, in the map being built and in the
\* mapping returned, is the value GetIpAddress returned for that node
C6_IpFromAccessor ==
    \A n \in NodeIds :
        /\ nodesConfig[n] /= NoEntry =>
             (IpReadOk(n) /\ nodesConfig[n].IPAddress = ipRead[n].val)
        /\ (ReturnedMap /\ ret.nodesConfig[n] /= NoEntry) =>
             ret.nodesConfig[n].IPAddress = ipRead[n].val

\* SetIpAddress ran between the recursive fetch and the IP fetch: the entry
\* holds the value written last, not the one the subtree decode found
C6_Witness ==
    /\ ReturnedMap
    /\ \E n \in NodeIds :
         /\ DecodedOk(n)
         /\ fetched[n].IPAddress = "10.0.0.1"
         /\ ipRead[n].val = "10.0.0.9"
         /\ ret.nodesConfig[n].IPAddress = "10.0.0.9"
         /\ storeOps = 2

====
